---------------------------- MODULE Spec2Model ----------------------------
(* A model of DocAITableExtractor: online_process (title association),    *)
(* get_table_data / text_anchor_to_text (offset resolution) and           *)
(* transform_and_save_data (record building and the JSON sink).           *)
(*                                                                        *)
(* A Python str is a sequence of one-character strings.  Normalised       *)
(* vertex coordinates are integers on a grid 0..MaxY.                     *)
EXTENDS Integers, Sequences, FiniteSets, TLC

VARIABLES document, pc, page, i, table_titles, json_data, file, writes, err

vars == <<document, pc, page, i, table_titles, json_data, file, writes, err>>

--------------------------------------------------------------------------
(* Bounds of the input families *)

MaxTextLen == 2
MaxSegs == 2
MaxParas == 3
MaxY == 3
MaxPages == 3
MaxTables == 2
MaxHeaderRows == 2
MaxCols == 2
MaxBodyRows == 2

--------------------------------------------------------------------------
(* Python str primitives *)

Min(a, b) == IF a < b THEN a ELSE b
Max(a, b) == IF a > b THEN a ELSE b

\* The characters str.strip() removes that occur in the modelled alphabet.
Whitespace == {" ", "\n", "\t"}

\* text[start:end] for ints: a negative index counts from the end, every
\* index is clamped to [0, len], an empty range gives "".
PySliceIndex(n, k) == IF k < 0 THEN Max(k + n, 0) ELSE Min(k, n)

PySlice(text, start, end) ==
    LET s == PySliceIndex(Len(text), start)
        e == PySliceIndex(Len(text), end)
    IN  IF s >= e THEN << >> ELSE SubSeq(text, s + 1, e)

RECURSIVE PyLStrip(_)
PyLStrip(s) ==
    IF s = << >> THEN << >>
    ELSE IF Head(s) \in Whitespace THEN PyLStrip(Tail(s)) ELSE s

RECURSIVE PyRStrip(_)
PyRStrip(s) ==
    IF s = << >> THEN << >>
    ELSE IF s[Len(s)] \in Whitespace THEN PyRStrip(SubSeq(s, 1, Len(s) - 1))
    ELSE s

PyStrip(s) == PyRStrip(PyLStrip(s))

\* s.replace("\n", " ")
RECURSIVE PyReplaceNewline(_)
PyReplaceNewline(s) ==
    IF s = << >> THEN << >>
    ELSE <<IF Head(s) = "\n" THEN " " ELSE Head(s)>> \o PyReplaceNewline(Tail(s))

\* sep.join(parts)
RECURSIVE PyJoin(_, _)
PyJoin(sep, parts) ==
    IF parts = << >> THEN << >>
    ELSE IF Len(parts) = 1 THEN parts[1]
    ELSE parts[1] \o sep \o PyJoin(sep, Tail(parts))

--------------------------------------------------------------------------
(* document_processing.py *)

\* The loop of text_anchor_to_text: response += text[start_index:end_index]
RECURSIVE AppendSegments(_, _, _)
AppendSegments(response, text_segments, text) ==
    IF text_segments = << >> THEN response
    ELSE AppendSegments(
             response \o PySlice(text, Head(text_segments).start_index,
                                 Head(text_segments).end_index),
             Tail(text_segments), text)

text_anchor_to_text_lstrip(text_anchor, text) ==
    PyReplaceNewline(PyLStrip(AppendSegments(<< >>, text_anchor, text)))

text_anchor_to_text(text_anchor, text) ==
    PyReplaceNewline(PyStrip(AppendSegments(<< >>, text_anchor, text)))

\* rows: a sequence of rows, a row the sequence of its cells' text anchors
get_table_data(rows, text) ==
    [r \in DOMAIN rows |->
        [c \in DOMAIN rows[r] |-> text_anchor_to_text(rows[r][c], text)]]

\* float('inf'): a finite stand-in above every distance of the input families
Infinity == 1000000

IsCloser_le(distance, min_distance) == 0 < distance /\ distance <= min_distance

IsCloser_ge0(distance, min_distance) == 0 <= distance /\ distance < min_distance

\* if 0 < distance < min_distance
IsCloser(distance, min_distance) == 0 < distance /\ distance < min_distance

\* The scan of page.paragraphs for one table; returns the final
\* closest_preceding_text.
RECURSIVE ScanParagraphs(_, _, _, _, _)
ScanParagraphs(paragraphs, table_start_y, closest_preceding_text, min_distance, text) ==
    IF paragraphs = << >> THEN closest_preceding_text
    ELSE LET paragraph == Head(paragraphs)
             distance == table_start_y - paragraph.end_y
         IN  IF IsCloser(distance, min_distance)
             THEN ScanParagraphs(Tail(paragraphs), table_start_y,
                      text_anchor_to_text(paragraph.text_anchor, text),
                      distance, text)
             ELSE ScanParagraphs(Tail(paragraphs), table_start_y,
                      closest_preceding_text, min_distance, text)

\* The position of the nested loops "for page in pages: for table in
\* page.tables": the next table at or after (p, k), k counted from 0;
\* the page index Len(pages) + 1 when both loops are exhausted.
RECURSIVE LoopPos(_, _, _)
LoopPos(pages, p, k) ==
    IF p > Len(pages) THEN <<Len(pages) + 1, 0>>
    ELSE IF k < Len(pages[p].tables) THEN <<p, k>>
    ELSE LoopPos(pages, p + 1, 0)

LoopDone == page > Len(document.pages)

CurrentTable == document.pages[page].tables[i + 1]

Advance(p, k) ==
    /\ page' = LoopPos(document.pages, p, k)[1]
    /\ i' = LoopPos(document.pages, p, k)[2]

--------------------------------------------------------------------------
(* data_transformation.py *)

\* A missing cell of a short row: lib.to_object_array leaves None there.
\* No str is this value (a character is a one-character string).
None == <<"None">>

RECURSIVE MaxRowLen(_)
MaxRowLen(rows) ==
    IF rows = << >> THEN 0 ELSE Max(Len(Head(rows)), MaxRowLen(Tail(rows)))

\* pd.MultiIndex.from_arrays(header_row_values) raises ValueError for no
\* level at all and for arrays of different lengths.
FromArraysRaises(header_row_values) ==
    IF header_row_values = << >> THEN TRUE
    ELSE \E r \in DOMAIN header_row_values :
             Len(header_row_values[r]) # Len(header_row_values[1])

\* pd.DataFrame(data=..., columns=...) pads the rows with None to the
\* longest row and raises ValueError when that width is not len(columns);
\* an empty data list builds an empty frame.
DataFrameRaises(header_row_values, body_row_values) ==
    IF FromArraysRaises(header_row_values) THEN TRUE
    ELSE /\ body_row_values # << >>
         /\ MaxRowLen(body_row_values) # Len(header_row_values[1])

\* df.columns.values: one tuple per column, the column's string of every level
ColumnTuples(header_row_values) ==
    [c \in 1..Len(header_row_values[1]) |->
        [r \in 1..Len(header_row_values) |-> header_row_values[r][c]]]

FlattenColumns_first(header_row_values) ==
    [c \in 1..Len(header_row_values[1]) |-> PyStrip(header_row_values[1][c])]

\* ['_'.join(map(str, col)).strip() for col in df.columns.values]
FlattenColumns(header_row_values) ==
    [c \in 1..Len(header_row_values[1]) |->
        PyStrip(PyJoin(<<"_">>, ColumnTuples(header_row_values)[c]))]

RowCell(row, c) == IF c <= Len(row) THEN row[c] ELSE None

\* The last column carrying the label: dict(zip(columns, row)) keeps the
\* last value of a repeated key.
LastColumn(columns, label) ==
    CHOOSE c \in DOMAIN columns :
        /\ columns[c] = label
        /\ \A d \in DOMAIN columns : columns[d] = label => d <= c

\* df.to_dict(orient='records')
ToDictRecords(columns, body_row_values) ==
    [r \in DOMAIN body_row_values |->
        [label \in {columns[c] : c \in DOMAIN columns} |->
            RowCell(body_row_values[r], LastColumn(columns, label))]]

TableJson(table, titles, k, text) ==
    [TableTitle |-> titles[k + 1],
     Data |-> ToDictRecords(FlattenColumns(get_table_data(table.header_rows, text)),
                            get_table_data(table.body_rows, text))]

--------------------------------------------------------------------------
(* The documents the provider may return: bounded input families.         *)
(* A paragraph is [end_y, text_anchor] (normalized_vertices[2].y and      *)
(* layout.text_anchor); a table is [start_y, header_rows, body_rows]      *)
(* (normalized_vertices[0].y and the rows' cells' text anchors).          *)

Segment(s, e) == [start_index |-> s, end_index |-> e]

SeqsUpTo(S, n) == UNION {[1..k -> S] : k \in 0..n}

\* The text of every family but the anchor documents: ten digits, ten letters
FixedText ==
    <<"0", "1", "2", "3", "4", "5", "6", "7", "8", "9",
      "a", "b", "c", "d", "e", "f", "g", "h", "k", "m">>

\* Anchors into FixedText: the digit d, the n-th letter, and the
\* two-segment anchor of a digit followed by a letter
Digit(d) == Segment(d, d + 1)
Letter(n) == Segment(9 + n, 10 + n)
Pair(d, n) == <<Digit(d), Letter(n)>>

\* A well-formed one-column table titled by whatever lies above start_y
SimpleTable(y) ==
    [start_y |-> y, header_rows |-> <<<< <<Letter(1)>> >>>>,
     body_rows |-> <<<< <<Digit(1)>> >>>>]

\* IsAnchorDoc: every short text over a three-character alphabet and two
\* longer samples, with every anchor
\* of in-bounds segments, or of one out-of-bounds segment beside at most
\* one in-bounds segment; the anchor is that of the paragraph above the
\* only table and of the table's cells.
Alphabet == {"a", " ", "\n"}

\* " a\na " (whitespace at both ends, a line break inside) and "a\n\na"
\* (two line breaks in a row)
SampleTexts == {<<" ", "a", "\n", "a", " ">>, <<"a", "\n", "\n", "a">>}

Texts == SeqsUpTo(Alphabet, MaxTextLen) \cup SampleTexts

InBounds(seg, text) ==
    0 <= seg.start_index /\ seg.start_index <= seg.end_index
                         /\ seg.end_index <= Len(text)

AllSegments(text) ==
    {Segment(s, e) : s \in -1..(Len(text) + 1), e \in -1..(Len(text) + 1)}

GoodSegments(text) == {seg \in AllSegments(text) : InBounds(seg, text)}

BadSegments(text) == AllSegments(text) \ GoodSegments(text)

Anchors(text) ==
    SeqsUpTo(GoodSegments(text), MaxSegs)
      \cup {<<b>> : b \in BadSegments(text)}
      \cup {<<b, g>> : b \in BadSegments(text), g \in GoodSegments(text)}
      \cup {<<g, b>> : b \in BadSegments(text), g \in GoodSegments(text)}

AnchorDoc(t, a) ==
    [text |-> t,
     pages |-> <<[paragraphs |-> <<[end_y |-> 0, text_anchor |-> a]>>,
                  tables |-> <<[start_y |-> 1, header_rows |-> << <<a>> >>,
                                body_rows |-> << <<a>> >>]>>]>>]

IsAnchorDoc(d) == \E t \in Texts : \E a \in Anchors(t) : d = AnchorDoc(t, a)

\* IsGeomDoc: one page with up to MaxParas paragraphs, each ending anywhere
\* on the grid, and one table starting anywhere on it; beside it (before or
\* after) a page whose paragraph would precede any table if pages mixed.
OtherPage ==
    [paragraphs |-> <<[end_y |-> 0, text_anchor |-> Pair(9, 1)]>>,
     tables |-> <<SimpleTable(1)>>]

GeomPage(ys, ty) ==
    [paragraphs |-> [j \in DOMAIN ys |-> [end_y |-> ys[j], text_anchor |-> Pair(0, j)]],
     tables |-> <<SimpleTable(ty)>>]

IsGeomDoc(d) ==
    \E ys \in SeqsUpTo(0..MaxY, MaxParas) : \E ty \in 0..MaxY :
        \/ d = [text |-> FixedText, pages |-> <<OtherPage, GeomPage(ys, ty)>>]
        \/ d = [text |-> FixedText, pages |-> <<GeomPage(ys, ty), OtherPage>>]

\* IsStructDoc: up to MaxPages pages, each with 0..MaxTables tables, table t
\* starting at y = t, and either no paragraph or paragraphs ending at
\* y = 0, 1, ..., so that table t of page p is titled "<p><t-th letter>".
StructPage(p, shape) ==
    [paragraphs |-> IF shape[1]
                    THEN [j \in 1..MaxTables |-> [end_y |-> j - 1, text_anchor |-> Pair(p, j)]]
                    ELSE << >>,
     tables |-> [t \in 1..shape[2] |-> SimpleTable(t)]]

IsStructDoc(d) ==
    \E n \in 1..MaxPages : \E shapes \in [1..n -> BOOLEAN \X (0..MaxTables)] :
        d = [text |-> FixedText,
             pages |-> [p \in DOMAIN shapes |-> StructPage(p, shapes[p])]]

\* IsShapeDoc: one page with a well-formed table and a table of any shape
\* (in either order), each under its own paragraph.  The header has up to
\* MaxHeaderRows rows of w cells (the last row one cell short when ragged);
\* a header row repeats one string or numbers its cells; the body has up to
\* MaxBodyRows rows of 1..MaxCols+1 cells, every cell a different string.
HeaderCell(r, c, same) == IF same THEN <<Letter(r)>> ELSE <<Letter(r), Digit(c)>>

HeaderRows(h, w, same, ragged) ==
    [r \in 1..h |->
        [c \in 1..(IF ragged /\ r = h /\ h > 1 THEN w - 1 ELSE w) |->
            HeaderCell(r, c, same[r])]]

Headers ==
    UNION {{HeaderRows(h, w, same, ragged) : same \in [1..h -> BOOLEAN], ragged \in BOOLEAN}
              : h \in 0..MaxHeaderRows, w \in 1..MaxCols}

BodyCell(r, c) == <<Digit(r), Letter(5 + c)>>

Bodies ==
    {[r \in DOMAIN widths |-> [c \in 1..widths[r] |-> BodyCell(r, c)]]
        : widths \in SeqsUpTo(1..(MaxCols + 1), MaxBodyRows)}

ShapeDoc(tt) ==
    [text |-> FixedText,
     pages |-> <<[paragraphs |-> <<[end_y |-> 0, text_anchor |-> Pair(1, 1)],
                                   [end_y |-> 1, text_anchor |-> Pair(1, 2)]>>,
                  tables |-> tt]>>]

IsShapeDoc(d) ==
    \E hd \in Headers : \E bd \in Bodies :
        \/ d = ShapeDoc(<<[start_y |-> 1, header_rows |-> hd, body_rows |-> bd],
                          SimpleTable(2)>>)
        \/ d = ShapeDoc(<<SimpleTable(1),
                          [start_y |-> 2, header_rows |-> hd, body_rows |-> bd]>>)

\* ExampleDoc: the two tables "Employees" (page 1, header Name/Age) and
\* the two-level header Q1/Q2 over Revenue/Revenue (page 2), each under a
\* paragraph of its own page.
ExampleText ==
    <<"E", "m", "p", "l", "o", "y", "e", "e", "s", "\n",
      "N", "a", "m", "e", " ", "A", "g", "e", "\n",
      "A", "l", "i", "c", "e", " ", "3", "0", "\n",
      "B", "o", "b", " ", "2", "5", "\n",
      "S", "a", "l", "e", "s", "\n",
      "Q", "1", " ", "Q", "2", "\n",
      "R", "e", "v", "e", "n", "u", "e", "\n",
      "7", " ", "8", "\n">>

Span(s, e) == <<Segment(s, e)>>

ExampleDoc ==
     [text |-> ExampleText,
      pages |-> <<[paragraphs |-> <<[end_y |-> 1, text_anchor |-> Span(0, 10)]>>,
                   tables |-> <<[start_y |-> 2,
                                 header_rows |-> << <<Span(10, 14), Span(15, 19)>> >>,
                                 body_rows |-> << <<Span(19, 24), Span(25, 28)>>,
                                                  <<Span(28, 31), Span(32, 35)>> >>]>>],
                  [paragraphs |-> <<[end_y |-> 1, text_anchor |-> Span(35, 41)]>>,
                   tables |-> <<[start_y |-> 2,
                                 header_rows |-> << <<Span(41, 43), Span(44, 47)>>,
                                                    <<Span(47, 55), Span(47, 55)>> >>,
                                 body_rows |-> << <<Span(55, 56), Span(57, 59)>> >>]>>]>>]

\* The documents the whole program is run on
IsDocument(d) ==
    \/ IsStructDoc(d)
    \/ IsShapeDoc(d)
    \/ d = ExampleDoc

\* The documents online_process alone is run on, for the title association
IsTitleDoc(d) ==
    \/ IsGeomDoc(d)
    \/ IsStructDoc(d)

--------------------------------------------------------------------------
(* The steps of main.py: online_process, then transform_and_save_data *)

OnlineTable_skip ==
    /\ pc = "online"
    /\ ~LoopDone
    /\ LET title == ScanParagraphs(document.pages[page].paragraphs, CurrentTable.start_y,
                                   << >>, Infinity, document.text)
       IN  table_titles' = IF title = << >> THEN table_titles
                           ELSE Append(table_titles, title)
    /\ Advance(page, i + 1)
    /\ UNCHANGED <<document, pc, json_data, file, writes, err>>

\* One pass of the inner loop of online_process
OnlineTable ==
    /\ pc = "online"
    /\ ~LoopDone
    /\ table_titles' = Append(table_titles,
           ScanParagraphs(document.pages[page].paragraphs, CurrentTable.start_y,
                          << >>, Infinity, document.text))
    /\ Advance(page, i + 1)
    /\ UNCHANGED <<document, pc, json_data, file, writes, err>>

\* return result.document, table_titles; main.py then calls
\* transform_and_save_data, whose loops start at the first table
OnlineReturn ==
    /\ pc = "online"
    /\ LoopDone
    /\ pc' = "transform"
    /\ Advance(1, 0)
    /\ UNCHANGED <<document, table_titles, json_data, file, writes, err>>

\* One pass of the inner loop of transform_and_save_data
TransformTable ==
    /\ pc = "transform"
    /\ ~LoopDone
    /\ ~DataFrameRaises(get_table_data(CurrentTable.header_rows, document.text),
                        get_table_data(CurrentTable.body_rows, document.text))
    /\ json_data' = Append(json_data,
                           TableJson(CurrentTable, table_titles, i, document.text))
    /\ Advance(page, i + 1)
    /\ UNCHANGED <<document, pc, table_titles, file, writes, err>>

\* pandas raises: the exception leaves transform_and_save_data and main.py
TransformRaise ==
    /\ pc = "transform"
    /\ ~LoopDone
    /\ DataFrameRaises(get_table_data(CurrentTable.header_rows, document.text),
                       get_table_data(CurrentTable.body_rows, document.text))
    /\ pc' = "failed"
    /\ err' = "ValueError"
    /\ UNCHANGED <<document, page, i, table_titles, json_data, file, writes>>

SaveJson_early ==
    /\ pc = "transform"
    /\ json_data # << >>
    /\ file' = json_data
    /\ writes' = writes + 1
    /\ pc' = IF LoopDone THEN "done" ELSE pc
    /\ UNCHANGED <<document, page, i, table_titles, json_data, err>>

\* with open("table_data.json", 'w') ...: json.dump(json_data, file)
SaveJson ==
    /\ pc = "transform"
    /\ LoopDone
    /\ file' = json_data
    /\ writes' = writes + 1
    /\ pc' = "done"
    /\ UNCHANGED <<document, page, i, table_titles, json_data, err>>

Next == OnlineTable \/ OnlineReturn \/ TransformTable \/ TransformRaise \/ SaveJson

\* The state at the loops of online_process: process_document has returned
\* result.document, table_titles = [] and nothing is written.
Start ==
    /\ pc = "online"
    /\ page = LoopPos(document.pages, 1, 0)[1]
    /\ i = LoopPos(document.pages, 1, 0)[2]
    /\ table_titles = << >>
    /\ json_data = << >>
    /\ file = << >>
    /\ writes = 0
    /\ err = "none"

Init == IsDocument(document) /\ Start

Spec == Init /\ [][Next]_vars

\* online_process alone, up to its return
NextOnline == OnlineTable \/ OnlineReturn

InitTitles == IsTitleDoc(document) /\ Start

SpecTitles == InitTitles /\ [][NextOnline]_vars

InitAnchor == IsAnchorDoc(document) /\ Start

SpecAnchor == InitAnchor /\ [][NextOnline]_vars

--------------------------------------------------------------------------
(* Vocabulary of the properties, stated without the code's loops *)

\* The number of tables of pages p, p + 1, ...
RECURSIVE CountFrom(_, _)
CountFrom(pages, p) ==
    IF p > Len(pages) THEN 0 ELSE Len(pages[p].tables) + CountFrom(pages, p + 1)

NumTables == CountFrom(document.pages, 1)

\* <<page, table>> (both counted from 1) of the k-th of the tables of pages
\* p, p + 1, ..., in page order, then in-page table order
RECURSIVE Locate(_, _, _)
Locate(pages, p, k) ==
    IF k <= Len(pages[p].tables) THEN <<p, k>>
    ELSE Locate(pages, p + 1, k - Len(pages[p].tables))

PageNo(k) == Locate(document.pages, 1, k)[1]

PageOf(k) == document.pages[PageNo(k)]

TableOf(k) == PageOf(k).tables[Locate(document.pages, 1, k)[2]]

\* gap = tableTopY - paragraphBottomY of paragraph j of the table's page
Gap(k, j) == TableOf(k).start_y - PageOf(k).paragraphs[j].end_y

Preceding(k) == {j \in DOMAIN PageOf(k).paragraphs : Gap(k, j) > 0}

\* The paragraph of least positive gap, the earliest of them on a tie
Nearest(k) ==
    CHOOSE j \in Preceding(k) :
        \A m \in Preceding(k) :
            Gap(k, j) < Gap(k, m) \/ (Gap(k, j) = Gap(k, m) /\ j <= m)

NearestAnchor(k) == PageOf(k).paragraphs[Nearest(k)].text_anchor

AnchorInBounds(anchor, text) == \A n \in DOMAIN anchor : InBounds(anchor[n], text)

\* fullText[start:end] of every segment, in the given order
RECURSIVE Concatenated(_, _)
Concatenated(anchor, text) ==
    IF anchor = << >> THEN << >>
    ELSE Concatenated(SubSeq(anchor, 1, Len(anchor) - 1), text)
           \o SubSeq(text, anchor[Len(anchor)].start_index + 1,
                     anchor[Len(anchor)].end_index)

Inked(s) == {n \in DOMAIN s : s[n] \notin Whitespace}

\* s without its leading and trailing whitespace
Trimmed(s) ==
    IF Inked(s) = {} THEN << >>
    ELSE SubSeq(s, CHOOSE n \in Inked(s) : \A m \in Inked(s) : n <= m,
                   CHOOSE n \in Inked(s) : \A m \in Inked(s) : m <= n)

\* every line break replaced by one space, one for one
Unbroken(s) == [n \in DOMAIN s |-> IF s[n] = "\n" THEN " " ELSE s[n]]

Resolved(anchor, text) == Unbroken(Trimmed(Concatenated(anchor, text)))

\* The title the association rule gives table k
RuleTitle(k) ==
    IF Preceding(k) = {} THEN << >>
    ELSE text_anchor_to_text(NearestAnchor(k), document.text)

HeaderGrid(k) == get_table_data(TableOf(k).header_rows, document.text)

BodyGrid(k) == get_table_data(TableOf(k).body_rows, document.text)

HeaderWellFormed(k) ==
    /\ Len(HeaderGrid(k)) >= 1
    /\ \A r \in DOMAIN HeaderGrid(k) : Len(HeaderGrid(k)[r]) = Len(HeaderGrid(k)[1])

Width(k) == Len(HeaderGrid(k)[1])

\* column c's strings of header rows 1..r joined with underscores
RECURSIVE Underscored(_, _, _)
Underscored(grid, c, r) ==
    IF r = 1 THEN grid[1][c]
    ELSE Underscored(grid, c, r - 1) \o <<"_">> \o grid[r][c]

Label(k, c) == Trimmed(Underscored(HeaderGrid(k), c, Len(HeaderGrid(k))))

--------------------------------------------------------------------------
(* Claims *)

\* C1: the k-th record is titled with the k-th entry of the title sequence
\* of online_process (tables counted in page order, then in-page order).
C1_RecordTitledByGlobalIndex ==
    \A k \in 1..Len(json_data) : json_data[k].TableTitle = table_titles[k]

\* C2: resolving an anchor with a segment out of [0, len(text)] or with
\* end < start ends in a DataIntegrityError that aborts the document: no
\* title list and no records come out of it.
C2_OutOfBoundsAborts ==
    (\E k \in 1..Len(table_titles) :
        Preceding(k) # {} /\ ~AnchorInBounds(NearestAnchor(k), document.text))
    => (err = "DataIntegrityError" /\ pc = "failed")

\* C3: a body row whose cell count differs from the header's width does not
\* fail the run: with well-formed headers no table fails, surplus cells are
\* dropped and the columns a short row lacks are absent from its mapping.
C3_ShapeMismatchAbsorbed ==
    (\A k \in 1..NumTables : HeaderWellFormed(k))
    => /\ pc # "failed"
       /\ \A k \in 1..Len(json_data) : \A r \in 1..Len(json_data[k].Data) :
              DOMAIN json_data[k].Data[r] =
                  {Label(k, c) : c \in 1..Min(Width(k), Len(BodyGrid(k)[r]))}

\* C4: a table with a paragraph of positive gap on its page is titled with
\* the text of the paragraph of least positive gap of that page, the
\* earliest in the page's paragraph sequence on a tie.
C4_NearestPrecedingParagraph ==
    \A k \in 1..Len(table_titles) :
        Preceding(k) # {} =>
            table_titles[k] = text_anchor_to_text(NearestAnchor(k), document.text)

\* A title was taken on a tie of two paragraphs while a farther paragraph
\* of the page came first and another page has paragraphs
C4_Witness ==
    \E k \in 1..Len(table_titles) :
        /\ \E j \in Preceding(k) : \E m \in Preceding(k) :
              j < m /\ Gap(k, j) = Gap(k, m) /\ Nearest(k) = j /\ j > 1
        /\ \E p \in DOMAIN document.pages :
              p # PageNo(k) /\ document.pages[p].paragraphs # << >>

\* C5: a table with no paragraph of positive gap on its page has the empty
\* title, whatever the other pages hold.
C5_NoPrecedingParagraphEmptyTitle ==
    \A k \in 1..Len(table_titles) : Preceding(k) = {} => table_titles[k] = << >>

\* A title was computed for a table with a paragraph at gap 0 and one
\* below it, while another page has a paragraph above its own table
C5_Witness ==
    \E k \in 1..Len(table_titles) :
        /\ Preceding(k) = {}
        /\ \E j \in DOMAIN PageOf(k).paragraphs : Gap(k, j) = 0
        /\ \E j \in DOMAIN PageOf(k).paragraphs : Gap(k, j) < 0
        /\ \E p \in DOMAIN document.pages :
              p # PageNo(k) /\ document.pages[p].paragraphs # << >>

\* C6: the title sequence has one entry per table, the k-th entry being the
\* title of the k-th table in page order, then in-page table order.
C6_OneTitlePerTable ==
    /\ Len(table_titles) <= NumTables
    /\ pc # "online" => Len(table_titles) = NumTables
    /\ \A k \in 1..Len(table_titles) : table_titles[k] = RuleTitle(k)

\* online_process has returned for a document with a page without tables
\* between pages with tables, and a page without paragraphs
C6_Witness ==
    /\ pc = "transform"
    /\ Len(table_titles) >= 3
    /\ \E p \in DOMAIN document.pages :
          /\ document.pages[p].tables = << >>
          /\ \E q \in DOMAIN document.pages : q < p /\ document.pages[q].tables # << >>
          /\ \E q \in DOMAIN document.pages : q > p /\ document.pages[q].tables # << >>
    /\ \E p \in DOMAIN document.pages :
          document.pages[p].paragraphs = << >> /\ document.pages[p].tables # << >>

\* C7: for an anchor of in-bounds segments the resolved text is the
\* segments' slices in order, trimmed, every "\n" replaced one for one by a
\* space; "" for an anchor without segments.
C7_ResolveInBounds ==
    \A k \in 1..Len(table_titles) :
        (Preceding(k) # {} /\ AnchorInBounds(NearestAnchor(k), document.text))
        => /\ table_titles[k] = Resolved(NearestAnchor(k), document.text)
           /\ NearestAnchor(k) = << >> => table_titles[k] = << >>

\* A title of two segments spanning " a\na " came out as "a a"
C7_Witness ==
    \E k \in 1..Len(table_titles) :
        /\ Preceding(k) # {}
        /\ AnchorInBounds(NearestAnchor(k), document.text)
        /\ Len(NearestAnchor(k)) = 2
        /\ table_titles[k] = <<"a", " ", "a">>
        /\ Concatenated(NearestAnchor(k), document.text) = <<" ", "a", "\n", "a", " ">>

\* C8: the labels of a record are, for each column, the strings of that
\* column in every header row, in header-row order, joined with "_" and
\* trimmed; with one header row, that row's cell values.
C8_FlattenedLabels ==
    \A k \in 1..Len(json_data) : \A r \in 1..Len(json_data[k].Data) :
        /\ DOMAIN json_data[k].Data[r] = {Label(k, c) : c \in 1..Width(k)}
        /\ Len(HeaderGrid(k)) = 1 =>
              DOMAIN json_data[k].Data[r] = {HeaderGrid(k)[1][c] : c \in 1..Width(k)}

\* The record of the header [["Q1","Q2"],["Revenue","Revenue"]] is built
C8_Witness ==
    \E k \in 1..Len(json_data) :
        /\ Len(HeaderGrid(k)) = 2
        /\ json_data[k].Data # << >>
        /\ DOMAIN json_data[k].Data[1] =
              {<<"Q", "1", "_", "R", "e", "v", "e", "n", "u", "e">>,
               <<"Q", "2", "_", "R", "e", "v", "e", "n", "u", "e">>}

\* C9: when every body row has the header's width, "Data" has one mapping
\* per body row, in order, and row r maps the label of every column c to
\* the cell at position c of row r, also when two labels coincide.
C9_EveryColumnInEveryRow ==
    \A k \in 1..Len(json_data) :
        (\A r \in DOMAIN BodyGrid(k) : Len(BodyGrid(k)[r]) = Width(k))
        => /\ Len(json_data[k].Data) = Len(BodyGrid(k))
           /\ \A r \in DOMAIN BodyGrid(k) : \A c \in 1..Width(k) :
                  /\ Label(k, c) \in DOMAIN json_data[k].Data[r]
                  /\ json_data[k].Data[r][Label(k, c)] = BodyGrid(k)[r][c]

\* C10: the sink is written at most once, only when every table's record is
\* built, never after a failure; a completed run writes one record per
\* table, in page order then in-page table order.
C10_SinkWrittenOnceAtEnd ==
    /\ writes <= 1
    /\ writes = 0 => file = << >>
    /\ writes >= 1 => (LoopDone /\ pc = "done" /\ Len(json_data) = NumTables)
    /\ pc = "failed" => writes = 0
    /\ pc = "done" =>
          /\ writes = 1
          /\ Len(file) = NumTables
          /\ \A k \in 1..Len(file) :
                file[k].Data = ToDictRecords(FlattenColumns(HeaderGrid(k)), BodyGrid(k))

\* A run over two pages, each with a table of its own shape, has completed
\* and written
C10_Witness ==
    /\ pc = "done"
    /\ writes = 1
    /\ Len(document.pages) = 2
    /\ Len(file) = 2
    /\ file[1].Data # file[2].Data
=============================================================================
